---------------------------- MODULE Spec2Model ----------------------------
(***************************************************************************)
(* Model of src/server.js: the receipt parser parseReceipt and the POST    *)
(* /ocr handler.                                                           *)
(*                                                                         *)
(* A JavaScript string is modelled as a sequence of one-character strings, *)
(* so that the regular expressions of the source are modelled by what they *)
(* match, character by character.  A monetary amount is an integer number  *)
(* of hundredths (the amount token has exactly two fractional digits), so  *)
(* 12.50 is 1250 and 1250 is 125000.                                       *)
(***************************************************************************)
EXTENDS Integers, Sequences, FiniteSets, TLC

VARIABLES
    pc,          \* position of the code under way (handler or parser call)
    file,        \* whether req.file?.path is set on the request
    ocr,         \* the adapter call runYourOCR: none, pending, returned, failed
    text,        \* the text under extraction (a string)
    err,         \* the error the adapter call threw, NoError if none
    parsed,      \* the record parseReceipt returned, NoRecord before
    parseCalls,  \* the number of calls of parseReceipt for this request
    responses    \* the responses sent for this request, in order

vars == <<pc, file, ocr, text, err, parsed, parseCalls, responses>>

---------------------------------------------------------------------------
(* Character classes of the JavaScript regular expressions.                *)

Lowers == <<"a","b","c","d","e","f","g","h","i","j","k","l","m",
            "n","o","p","q","r","s","t","u","v","w","x","y","z">>
Uppers == <<"A","B","C","D","E","F","G","H","I","J","K","L","M",
            "N","O","P","Q","R","S","T","U","V","W","X","Y","Z">>

LowerSet == {Lowers[i] : i \in 1..Len(Lowers)}
UpperSet == {Uppers[i] : i \in 1..Len(Uppers)}
DigitSeq == <<"0","1","2","3","4","5","6","7","8","9">>
DigitSet == {DigitSeq[i] : i \in 1..Len(DigitSeq)}

UpperOf == [c \in LowerSet |-> Uppers[CHOOSE i \in 1..Len(Lowers) : Lowers[i] = c]]

\* Canonicalisation of the /i flag: a lower-case letter folds to upper case.
Fold(c) == IF c \in LowerSet THEN UpperOf[c] ELSE c

IsDigit(c) == c \in DigitSet                      \* [0-9]
IsAlpha(c) == c \in LowerSet \cup UpperSet        \* [A-Za-z]
IsWord(c)  == IsAlpha(c) \/ IsDigit(c) \/ c = "_" \* \w
IsSpace(c) == c \in {" ", "\t", "\r", "\n"}       \* \s
IsSep(c)   == c = ":" \/ IsSpace(c)               \* [:\s]
IsPoint(c) == c \in {".", ","}                    \* [.,]

DigitValOf == [c \in DigitSet |-> (CHOOSE i \in 1..Len(DigitSeq) : DigitSeq[i] = c) - 1]

DigitVal(c) == DigitValOf[c]

Min(a, b) == IF a < b THEN a ELSE b

\* The literal lit stands in s at position p (1-based), letter case ignored.
LitAtCI(s, p, lit) ==
    /\ p >= 1
    /\ p + Len(lit) - 1 <= Len(s)
    /\ \A k \in 1..Len(lit) : Fold(s[p + k - 1]) = Fold(lit[k])

\* The literal lit stands in s at position p, letter case respected.
LitAt(s, p, lit) ==
    /\ p >= 1
    /\ p + Len(lit) - 1 <= Len(s)
    /\ \A k \in 1..Len(lit) : s[p + k - 1] = lit[k]

\* /lit/i.test(s) and /lit/.test(s)
TestCI(s, lit) == \E p \in 1..Len(s) : LitAtCI(s, p, lit)
Test(s, lit)   == \E p \in 1..Len(s) : LitAt(s, p, lit)

\* \b at position p: exactly one of the characters before and at p is a word
\* character (the outside of the string counts as a non-word character).
WordBoundary(s, p) ==
    LET before == p > 1 /\ p - 1 <= Len(s) /\ IsWord(s[p - 1])
        after  == p >= 1 /\ p <= Len(s) /\ IsWord(s[p])
    IN  before # after

---------------------------------------------------------------------------
(* Line normalisation: text.split(/\r?\n/).map(s => s.trim())              *)
(*                         .filter(Boolean)                                *)

RECURSIVE SplitFrom(_, _, _)
\* The pieces of s from position p on, cur being the piece under way.
SplitFrom(s, p, cur) ==
    IF p > Len(s) THEN <<cur>>
    ELSE IF s[p] = "\n" THEN <<cur>> \o SplitFrom(s, p + 1, <<>>)
    ELSE IF s[p] = "\r" /\ p < Len(s) /\ s[p + 1] = "\n"
           THEN <<cur>> \o SplitFrom(s, p + 2, <<>>)
    ELSE SplitFrom(s, p + 1, Append(cur, s[p]))

SplitLines(s) == SplitFrom(s, 1, <<>>)

Trim(s) ==
    IF \A k \in 1..Len(s) : IsSpace(s[k]) THEN <<>>
    ELSE LET first == CHOOSE a \in 1..Len(s) :
                          ~IsSpace(s[a]) /\ \A k \in 1..(a - 1) : IsSpace(s[k])
             last  == CHOOSE b \in 1..Len(s) :
                          ~IsSpace(s[b]) /\ \A k \in (b + 1)..Len(s) : IsSpace(s[k])
         IN  SubSeq(s, first, last)

NonEmpty(s) == s # <<>>

Lines(s) ==
    LET pieces  == SplitLines(s)
        trimmed == [k \in 1..Len(pieces) |-> Trim(pieces[k])]
    IN  SelectSeq(trimmed, NonEmpty)

---------------------------------------------------------------------------
(* Merchant detection.                                                     *)

\* The alternatives of the deny-list expression ban, in source order.
BanTerms ==
    <<<<"t","o","t","a","l">>,
      <<"d","a","t","e">>,
      <<"t","i","m","e">>,
      <<"i","n","v","o","i","c","e">>,
      <<"b","a","t","c","h">>,
      <<"a","p","p","r","o","v","a","l">>,
      <<"t","r","a","n","s"," ","i","d">>,
      <<"c","u","s","t","o","m","e","r">>,
      <<"w","e","c","h","a","t">>,
      <<"v","i","s","a">>,
      <<"m","a","s","t","e","r">>,
      <<"s","a","l","e">>,
      <<"r","e","c","e","i","p","t">>,
      <<"s","t","o","r","e">>,
      <<"c","a","s","h","i","e","r">>,
      <<"h","o","s","t">>,
      <<"m","i","d">>,
      <<"t","i","d">>,
      <<"b","a","t","c","h">>>>

\* The deny-list without its alternative store.
banWithoutStore(s) ==
    \E k \in 1..Len(BanTerms) :
        BanTerms[k] # <<"s","t","o","r","e">> /\ TestCI(s, BanTerms[k])

\* ban.test(s): some alternative stands somewhere in s, letter case ignored.
ban(s) == \E k \in 1..Len(BanTerms) : TestCI(s, BanTerms[k])

\* /[A-Za-z]/.test(s)
HasAlpha(s) == \E k \in 1..Len(s) : IsAlpha(s[k])

MinMerchantLen == 3

\* The condition of the if statement in the merchant loop.
MerchantCandidate(s) == ~ban(s) /\ HasAlpha(s) /\ Len(s) >= MinMerchantLen

\* A character the sanitising replace keeps: [\w\s\-\&\.\,]
Kept(c) == IsWord(c) \/ IsSpace(c) \/ c \in {"-", "&", ".", ","}

MaxMerchantLen == 60

\* The slice left out.
Slice0Whole(s, n) == s

\* s.slice(0, n)
Slice0(s, n) == SubSeq(s, 1, Min(n, Len(s)))

\* s.replace(/[^\w\s\-\&\.\,]/g, "").slice(0, 60)
Sanitize(s) == Slice0(SelectSeq(s, Kept), MaxMerchantLen)

MerchantWindow == 6

\* The merchant loop running over every line.
ScanLimitAll(lines) == Len(lines)

\* Math.min(6, lines.length), the bound of the merchant loop.
ScanLimit(lines) == Min(MerchantWindow, Len(lines))

NoMerchant == <<"-">>

RECURSIVE MerchantLoop(_, _)
\* The merchant loop from index i on (1-based), with its break.
MerchantLoop(lines, i) ==
    IF i > ScanLimit(lines) THEN NoMerchant
    ELSE IF MerchantCandidate(lines[i]) THEN Sanitize(lines[i])
    ELSE MerchantLoop(lines, i + 1)

---------------------------------------------------------------------------
(* Amount detection: the four expressions of candidates.  A match is a     *)
(* record [at, tok, end]: the match starts at position at, and its last    *)
(* capture group, the amount token, is s[tok .. end - 1].                  *)

\* (?:SGD|HKD|CNY|USD|S\$|\$|RM)
Markers == {<<"S","G","D">>, <<"H","K","D">>, <<"C","N","Y">>, <<"U","S","D">>, <<"S","$">>, <<"$">>, <<"R","M">>}

\* The positions after [:\s]+ matched from position a.
SepPlus(s, a) == {q \in (a + 1)..(Len(s) + 1) : \A k \in a..(q - 1) : IsSep(s[k])}

\* The positions after (?:marker)? matched from position q.
OptMarker(s, q) == {q} \cup {q + Len(m) : m \in {n \in Markers : LitAtCI(s, q, n)}}

\* The positions after \s* matched from position r.
SpaceStar(s, r) == {t \in r..(Len(s) + 1) : \A k \in r..(t - 1) : IsSpace(s[k])}

\* The positions after [0-9]+[.,][0-9]{2} matched from position t.
TokenEnds(s, t) ==
    {e \in (t + 4)..(Len(s) + 1) :
        /\ \A k \in t..(e - 4) : IsDigit(s[k])
        /\ IsPoint(s[e - 3])
        /\ IsDigit(s[e - 2])
        /\ IsDigit(s[e - 1])}

\* The matches of  tail == [:\s]+(?:marker)?\s*([0-9]+[.,][0-9]{2})  from
\* position a, for a match that starts at position p.
MarkedTail(s, p, a) ==
    {[at |-> p, tok |-> t, end |-> e] :
        <<t, e>> \in UNION {UNION {UNION {{<<t, e>> : e \in TokenEnds(s, t)} :
                                          t \in SpaceStar(s, r)} :
                                   r \in OptMarker(s, q)} :
                            q \in SepPlus(s, a)}}

\* /TOTAL[:\s]+(?:SGD|HKD|CNY|USD|S\$|\$|RM)?\s*([0-9]+[.,][0-9]{2})/i
Total == <<"T","O","T","A","L">>
MatchTotal(s) ==
    UNION {MarkedTail(s, p, p + Len(Total)) :
               p \in {q \in 1..Len(s) : LitAtCI(s, q, Total)}}

\* /(AMOUNT|AMT|AMOUNT DUE)[:\s]+(?:SGD|HKD|CNY|USD|S\$|\$|RM)?\s*([0-9]+[.,][0-9]{2})/i
AmountWords == {<<"A","M","O","U","N","T">>, <<"A","M","T">>,
                <<"A","M","O","U","N","T"," ","D","U","E">>}
MatchAmount(s) ==
    UNION {UNION {MarkedTail(s, p, p + Len(w)) :
                      w \in {v \in AmountWords : LitAtCI(s, p, v)}} :
               p \in 1..Len(s)}

\* /(CNY|SGD|USD)\s*AMOUNT[:\s]+([0-9]+[.,][0-9]{2})/i
Codes == {<<"C","N","Y">>, <<"S","G","D">>, <<"U","S","D">>}
Amount == <<"A","M","O","U","N","T">>
CodeLen == 3
MatchCodeAmount(s) ==
    UNION {UNION {UNION {{[at |-> p, tok |-> t, end |-> e] : e \in TokenEnds(s, t)} :
                         t \in SepPlus(s, a + Len(Amount))} :
                  a \in {b \in SpaceStar(s, p + CodeLen) : LitAtCI(s, b, Amount)}} :
           p \in {q \in 1..Len(s) : \E c \in Codes : LitAtCI(s, q, c)}}

\* /\b(?:S\$|\$)\s*([0-9]+[.,][0-9]{2})\b/   (no i flag)
Dollars == {<<"S","$">>, <<"$">>}
MatchDollar(s) ==
    UNION {UNION {UNION {{[at |-> p, tok |-> t, end |-> e] :
                             e \in {f \in TokenEnds(s, t) : WordBoundary(s, f)}} :
                         t \in SpaceStar(s, p + Len(d))} :
                  d \in {c \in Dollars : LitAt(s, p, c)}} :
           p \in {q \in 1..Len(s) : WordBoundary(s, q)}}

NumCandidates == 4

\* The matches of candidates[k - 1] in s.
Matches(k, s) ==
    CASE k = 1 -> MatchTotal(s)
      [] k = 2 -> MatchAmount(s)
      [] k = 3 -> MatchCodeAmount(s)
      [] k = 4 -> MatchDollar(s)

\* The match line.match(re) reports: the leftmost one.
Leftmost(ms) ==
    CHOOSE m \in ms : \A n \in ms : m.at < n.at \/ (m.at = n.at /\ m.tok <= n.tok)

\* m[m.length - 1] of line.match(candidates[k - 1]); <<>> when there is no match.
LastGroup(k, s) ==
    LET ms == Matches(k, s)
    IN  IF ms = {} THEN <<>>
        ELSE LET m == Leftmost(ms) IN SubSeq(s, m.tok, m.end - 1)

\* val.replace(",", ""): the first comma of val is taken out.
DropComma(val) ==
    IF \E k \in 1..Len(val) : val[k] = ","
      THEN LET c == CHOOSE k \in 1..Len(val) :
                        val[k] = "," /\ \A j \in 1..(k - 1) : val[j] # ","
           IN  SubSeq(val, 1, c - 1) \o SubSeq(val, c + 1, Len(val))
      ELSE val

RECURSIVE DigitsValue(_)
\* The value of a string of decimal digits.
DigitsValue(d) ==
    IF d = <<>> THEN 0
    ELSE 10 * DigitsValue(SubSeq(d, 1, Len(d) - 1)) + DigitVal(d[Len(d)])

\* parseFloat(str), in hundredths, for str of the shape digits or
\* digits.digits2 (all that the amount token, with its comma taken out or its
\* period kept, can be): the longest numeric prefix is the whole of str.
ParseFloat(str) ==
    IF \E k \in 1..Len(str) : str[k] = "."
      THEN LET dot == CHOOSE k \in 1..Len(str) : str[k] = "."
           IN  100 * DigitsValue(SubSeq(str, 1, dot - 1))
                 + DigitsValue(SubSeq(str, dot + 1, Len(str)))
      ELSE 100 * DigitsValue(str)

\* amount = parseFloat(val.replace(",", ""))
AmountOf(val) == ParseFloat(DropComma(val))

Null == "null"

\* The chain with its first two tests in the other order.
CurrencyOfSgdFirst(line) ==
    IF TestCI(line, <<"S","G","D">>) \/ TestCI(line, <<"S","$">>) THEN "SGD"
    ELSE IF TestCI(line, <<"C","N","Y">>) THEN "CNY"
    ELSE IF Test(line, <<"$">>) THEN "SGD"
    ELSE Null

\* The if / else-if chain that sets currency from the matched line; currency
\* stays null when no branch is taken.
CurrencyOf(line) ==
    IF TestCI(line, <<"C","N","Y">>) THEN "CNY"
    ELSE IF TestCI(line, <<"S","G","D">>) \/ TestCI(line, <<"S","$">>) THEN "SGD"
    ELSE IF Test(line, <<"$">>) THEN "SGD"
    ELSE Null

\* The state of the amount loops before the first line: amount = null (the
\* empty sequence; a set amount is a one-element sequence), currency = null,
\* matched = "".
NoAmount == [amount |-> <<>>, currency |-> Null, matched |-> <<>>]

RECURSIVE CandidateLoop(_, _)
\* The inner loop over candidates from index k on, on one line, with its
\* break: the state it leaves, NoAmount when no expression matches the line.
CandidateLoop(line, k) ==
    IF k > NumCandidates THEN NoAmount
    ELSE LET val == LastGroup(k, line)
         IN  IF val # <<>>
               THEN [amount   |-> <<AmountOf(val)>>,
                     currency |-> CurrencyOf(line),
                     matched  |-> line]
               ELSE CandidateLoop(line, k + 1)

RECURSIVE AmountLoopLast(_, _)
\* The outer loop without its break: the last matching line wins.
AmountLoopLast(lines, i) ==
    IF i > Len(lines) THEN NoAmount
    ELSE LET rest == AmountLoopLast(lines, i + 1)
         IN  IF rest.amount # <<>> THEN rest
             ELSE CandidateLoop(lines[i], 1)

RECURSIVE AmountLoop(_, _)
\* The outer loop over lines from index i on, with  if (amount != null) break.
AmountLoop(lines, i) ==
    IF i > Len(lines) THEN NoAmount
    ELSE LET found == CandidateLoop(lines[i], 1)
         IN  IF found.amount # <<>> THEN found
             ELSE AmountLoop(lines, i + 1)

DefaultCurrency == "SGD"

\* The default currency taken to be USD.
CurrencyOrUsd(c) == IF c = Null THEN "USD" ELSE c

\* currency || "SGD"
CurrencyOr(c) == IF c = Null THEN DefaultCurrency ELSE c

\* amount ?? 0
AmountOr(a) == IF a = <<>> THEN 0 ELSE a[1]

\* parseReceipt(text), for text a string.
parseReceipt(t) ==
    LET lines == Lines(t)
        found == AmountLoop(lines, 1)
    IN  [merchant |-> MerchantLoop(lines, 1),
         currency |-> CurrencyOr(found.currency),
         amount   |-> AmountOr(found.amount),
         debug    |-> [matched |-> found.matched]]

---------------------------------------------------------------------------
(* The POST /ocr handler.  The handler runs to its await, and goes on when *)
(* the promise of runYourOCR settles: with the text, or with the error     *)
(* thrown in the catch block.                                              *)

\* An absent status (undefined) is 0: both are falsy under ||.
Undefined == 0
QuotaStatus == 429
HttpOk == 200

NoError  == [status |-> Undefined, responseStatus |-> Undefined, detail |-> "none"]
NoRecord == [merchant |-> <<>>, currency |-> Null, amount |-> 0,
             debug |-> [matched |-> <<>>]]

\* The fixed messages of the three failure responses (the source's texts are
\* user-facing sentences; each is named here by its response).
NoFileMessage == "no image file received"
QuotaMessage  == "recognition quota exhausted, enable billing and retry"
ErrorMessage  == "recognition failed, retry later"

\* { ok: false, code: "NOFILE", message: ... }
NoFileBody == [ok |-> FALSE, code |-> "NOFILE", message |-> NoFileMessage]

\* The whole parsed record serialised: { ok: true, ...parsed }
SuccessBodyWhole(p) ==
    [ok |-> TRUE, merchant |-> p.merchant, amount |-> p.amount,
     currency |-> p.currency, debug |-> p.debug]

\* { ok: true, merchant: parsed.merchant, amount: parsed.amount,
\*   currency: parsed.currency }
SuccessBody(p) ==
    [ok |-> TRUE, merchant |-> p.merchant, amount |-> p.amount,
     currency |-> p.currency]

\* Only the status of the error's response read.
StatusCodeResponseOnly(e) == e.responseStatus

\* const code = e?.status || e?.response?.status
StatusCode(e) == IF e.status # Undefined THEN e.status ELSE e.responseStatus

\* The body the catch block sends for the error e.
FailureBody(e) ==
    IF StatusCode(e) = QuotaStatus
      THEN [ok |-> FALSE, code |-> "QUOTA", message |-> QuotaMessage]
      ELSE [ok |-> FALSE, code |-> "ERROR", message |-> ErrorMessage]

\* res.status(200).json(body), and res.json(body) on a fresh response
Send(body) == Append(responses, [status |-> HttpOk, body |-> body])

\* text || ""  for text a string: "" is the only falsy string.
TextOr(t) == IF t = <<>> THEN <<>> ELSE t

---------------------------------------------------------------------------
(* The transcriptions the checks draw from.  A text is the lines of a      *)
(* sequence joined by line feeds.                                          *)

MaxMerchantLines == 7
MaxAmountLines == 2
MaxRawLines == 3
LongLineLen == 65

\* Lines for merchant detection: two candidates (one with characters the
\* sanitising removes) and a deny-listed line.
MerchantPool ==
    {<<"A","C","M","E">>,
     <<"B","&","B","'","s","!">>,
     <<"T","i","d"," ","1">>}

\* Lines for amount detection: each expression of candidates, both
\* separators, every marker, the $ sign at the start, after a space and after
\* a word character, a malformed token, two keywords on one line, and lines
\* without an amount.
AmountPool ==
    {<<"T","O","T","A","L",":"," ","S","G","D"," ","2","3",".","5","0">>,
     <<"A","M","O","U","N","T"," ","D","U","E",":"," ","$","9",".","9","9">>,
     <<"T","O","T","A","L",":"," ","1","2",",","5","0">>,
     <<"$","9",".","9","9">>,
     <<"S","$","4",".","2","0">>,
     <<"C","a","s","h"," ","$","5",".","0","0">>,
     <<"U","S","D","$","7",".","0","0">>,
     <<"C","N","Y"," ","A","M","O","U","N","T",":"," ","8",".","0","0">>,
     <<"T","O","T","A","L",":"," ","1","2",".","5">>,
     <<"S","G","D"," ","T","O","T","A","L",":"," ","C","N","Y"," ","3",".","0","0">>,
     <<"T","o","t","a","l"," ","H","K","D"," ","6",".","0","0">>,
     <<"a","m","t",":"," ","r","m"," ","0",",","0","5">>,
     <<"t","o","t","a","l"," ","c","n","y"," ","1",".","0","0">>,
     <<"A","M","T"," ","1",".","0","0"," ","T","O","T","A","L"," ","2",".","0","0">>,
     <<"A","C","M","E"," ","L","t","d">>,
     <<"S","T","O","R","E"," ","N","A","M","E">>,
     <<"D","A","T","E",":"," ","0","1","/","0","1","/","2","0","2","4">>,
     <<"T","O","T","A","L",":"," ","1","2",".","0","0">>}

\* Raw lines: empty, blank, padded, with carriage returns, without letters,
\* and too short.
RawPool ==
    {<<>>,
     <<" ","\t">>,
     <<" "," ","A","C","M","E"," ","L","t","d"," ","\r">>,
     <<"T","O","T","A","L",":"," ","1",".","0","0","\r">>,
     <<"\r","S","$","4",".","2","0">>,
     <<"1","2">>,
     <<"a","b">>}

\* A line longer than the merchant limit.
LongLine == [k \in 1..LongLineLen |-> "A"]

RECURSIVE Join(_)
Join(ls) ==
    IF ls = <<>> THEN <<>>
    ELSE IF Len(ls) = 1 THEN ls[1]
    ELSE ls[1] \o <<"\n">> \o Join(Tail(ls))

SeqsUpTo(P, n) == UNION {[1..k -> P] : k \in 0..n}

TextsOver(P, n) == {Join(ls) : ls \in SeqsUpTo(P, n)}

\* The receipt of three lines: STORE NAME / DATE: 01/01/2024 / TOTAL: 12.00
StoreName == <<"S","T","O","R","E"," ","N","A","M","E">>
StoreReceipt ==
    Join(<<StoreName,
           <<"D","A","T","E",":"," ","0","1","/","0","1","/","2","0","2","4">>,
           <<"T","O","T","A","L",":"," ","1","2",".","0","0">>>>)

LongTexts == {LongLine, Join(<<LongLine, <<"T","O","T","A","L"," ","9",".","0","0">>>>)}

AllTexts ==
    TextsOver(MerchantPool, MaxMerchantLines)
      \cup TextsOver(AmountPool, MaxAmountLines)
      \cup TextsOver(RawPool, MaxRawLines)
      \cup LongTexts
      \cup {StoreReceipt}

\* What the adapter may return to the handler, and the errors it may throw:
\* an error carries its own status (the client's API errors), a status on
\* its response, or none (a failed file read).
AdapterTexts ==
    TextsOver(AmountPool, MaxAmountLines) \cup LongTexts \cup {StoreReceipt}

Errors ==
    {[status |-> st, responseStatus |-> rs, detail |-> d] :
        <<st, rs>> \in {<<Undefined, Undefined>>, <<QuotaStatus, Undefined>>,
                       <<500, Undefined>>, <<Undefined, QuotaStatus>>,
                       <<Undefined, 500>>, <<QuotaStatus, QuotaStatus>>},
        d \in {"rate limit reached for requests", "ENOENT: no such file"}}

---------------------------------------------------------------------------
(* The specification of the handler.                                       *)

Init ==
    /\ pc = "idle"
    /\ file = FALSE
    /\ ocr = "none"
    /\ text = <<>>
    /\ err = NoError
    /\ parsed = NoRecord
    /\ parseCalls = 0
    /\ responses = <<>>

\* A request arrives (the server is idle or has answered the last one): the
\* handler runs from its start to the NOFILE return or to the await.
Post ==
    /\ pc \in {"idle", "done"}
    /\ \E f \in BOOLEAN :
          /\ file' = f
          /\ text' = <<>>
          /\ err' = NoError
          /\ parsed' = NoRecord
          /\ parseCalls' = 0
          /\ IF ~f
               THEN /\ responses' = <<[status |-> HttpOk, body |-> NoFileBody]>>
                    /\ ocr' = "none"
                    /\ pc' = "done"
               ELSE /\ responses' = <<>>
                    /\ ocr' = "pending"
                    /\ pc' = "await"

\* runYourOCR resolves with a text: the handler parses it and answers.
OcrResolve ==
    /\ pc = "await"
    /\ \E t \in AdapterTexts :
          LET p == parseReceipt(TextOr(t))
          IN  /\ text' = t
              /\ parsed' = p
              /\ responses' = Send(SuccessBody(p))
    /\ ocr' = "returned"
    /\ parseCalls' = parseCalls + 1
    /\ pc' = "done"
    /\ UNCHANGED <<file, err>>

\* runYourOCR throws: the catch block answers.
OcrReject ==
    /\ pc = "await"
    /\ \E e \in Errors :
          /\ err' = e
          /\ responses' = Send(FailureBody(e))
    /\ ocr' = "failed"
    /\ pc' = "done"
    /\ UNCHANGED <<file, text, parsed, parseCalls>>

Next == Post \/ OcrResolve \/ OcrReject

Spec == Init /\ [][Next]_vars

---------------------------------------------------------------------------
(* The specification of parseReceipt as a function of its input: the input *)
(* is drawn by the initial state and the one action applies the function.  *)

InitParse ==
    /\ pc = "call"
    /\ text \in AllTexts
    /\ file = FALSE
    /\ ocr = "none"
    /\ err = NoError
    /\ parsed = NoRecord
    /\ parseCalls = 0
    /\ responses = <<>>

ParseCall ==
    /\ pc = "call"
    /\ parsed' = parseReceipt(text)
    /\ parseCalls' = parseCalls + 1
    /\ pc' = "ret"
    /\ UNCHANGED <<file, ocr, text, err, responses>>

NextParse == ParseCall

SpecParse == InitParse /\ [][NextParse]_vars

---------------------------------------------------------------------------
(* Properties.  The properties of parseReceipt are checked under SpecParse,*)
(* in the states where it has returned; those of the handler under Spec.   *)

Returned == pc = "ret"

InputLines == Lines(text)

\* The indices of the lines some expression of candidates matches.
MatchingLines(ls) ==
    {i \in 1..Len(ls) : \E k \in 1..NumCandidates : Matches(k, ls[i]) # {}}

Least(S) == CHOOSE x \in S : \A y \in S : x <= y

\* The first expression, in priority order, that matches the line.
FirstPattern(line) == Least({k \in 1..NumCandidates : Matches(k, line) # {}})

\* The value, in hundredths, of a token digits-separator-two digits read as a
\* decimal number, whichever the separator.
DecimalValue(tok) ==
    100 * DigitsValue(SubSeq(tok, 1, Len(tok) - 3))
      + DigitsValue(SubSeq(tok, Len(tok) - 1, Len(tok)))

HasComma(tok) == \E k \in 1..Len(tok) : tok[k] = ","

\* C1: for every input text the record parseReceipt returns has amount >= 0,
\* a currency of 3 characters and a merchant of 1 to 60 characters.  (That it
\* returns on every input is the action ParseCall being defined on every
\* initial state: parseReceipt is evaluated on each text of AllTexts.)
C1_WellFormedRecord ==
    Returned =>
        /\ parsed \in [merchant : Seq(STRING), currency : STRING, amount : Nat,
                       debug : [matched : Seq(STRING)]]
        /\ parsed.amount >= 0
        /\ Len(parsed.currency) = 3
        /\ Len(parsed.merchant) >= 1
        /\ Len(parsed.merchant) <= 60

\* A line longer than 60 characters became the merchant, cut to 60, and an
\* amount was found.
C1_Witness ==
    /\ Returned
    /\ Len(InputLines) >= 1
    /\ Len(InputLines[1]) > 60
    /\ Len(parsed.merchant) = 60
    /\ parsed.amount > 0

\* C2 as stated: on the receipt STORE NAME / DATE: 01/01/2024 / TOTAL: 12.00
\* the merchant is STORE NAME and the amount 12.00.
C2_StoreNameIsMerchant ==
    (Returned /\ text = StoreReceipt) =>
        /\ parsed.merchant = StoreName
        /\ parsed.amount = 1200

\* C2 amended: on that receipt the merchant is the default "-" (STORE NAME
\* matches the deny-list alternative store, and the other two lines match
\* date and total), and the amount is 12.00.
C2_StoreNameIsDenied ==
    (Returned /\ text = StoreReceipt) =>
        /\ parsed.merchant = <<"-">>
        /\ parsed.amount = 1200

\* The receipt of C2 has been parsed.
C2_Witness ==
    /\ Returned
    /\ text = StoreReceipt
    /\ InputLines[1] = StoreName

\* C3: when the matched amount token has a comma as its separator, the
\* amount returned is the value of digits.two-digits (12,50 gives 12.50).
C3_CommaReadAsPoint ==
    (Returned /\ parsed.debug.matched # <<>>) =>
        LET tok == LastGroup(FirstPattern(parsed.debug.matched), parsed.debug.matched)
        IN  HasComma(tok) => parsed.amount = DecimalValue(tok)

\* The line holds a $ (bare, or of S$) immediately followed by an amount
\* token: digits, a separator, exactly two digits and no further digit.
DollarToken(line) ==
    \E p \in 1..Len(line) :
        /\ line[p] = "$"
        /\ \E e \in TokenEnds(line, p + 1) : e > Len(line) \/ ~IsDigit(line[e])

\* The token that follows the first $ of the line.
TokenAfterDollar(line) ==
    LET p == Least({q \in 1..Len(line) : line[q] = "$"})
    IN  SubSeq(line, p + 1, Least(TokenEnds(line, p + 1)) - 1)

\* C4: a line with a bare S$ or $ immediately followed by an amount token
\* matches an expression wherever the symbol stands in the line; when the
\* text is one such line and none of the keyword expressions matches it, the
\* amount is that token's, not the default.
C4_DollarAnywhere ==
    Returned =>
        /\ (\E i \in 1..Len(InputLines) : DollarToken(InputLines[i]))
              => parsed.debug.matched # <<>>
        /\ ( /\ Len(InputLines) = 1
             /\ DollarToken(InputLines[1])
             /\ \A k \in 1..3 : Matches(k, InputLines[1]) = {} )
              => parsed.amount = AmountOf(TokenAfterDollar(InputLines[1]))

\* C5: the amount and the currency come from the first line, top to bottom,
\* that any of the four expressions matches, and on that line from the first
\* expression in priority order that matches; the lines after it change
\* nothing; with no matching line the amount is 0.
C5_FirstLineFirstPattern ==
    Returned =>
        LET ls == InputLines
            M  == MatchingLines(ls)
        IN  IF M = {}
              THEN parsed.amount = 0 /\ parsed.debug.matched = <<>>
              ELSE LET i    == Least(M)
                       line == ls[i]
                       head == parseReceipt(Join(SubSeq(ls, 1, i)))
                   IN  /\ parsed.debug.matched = line
                       /\ parsed.amount = AmountOf(LastGroup(FirstPattern(line), line))
                       /\ parsed.currency = CurrencyOr(CurrencyOf(line))
                       /\ parsed.amount = head.amount
                       /\ parsed.currency = head.currency

\* The first matching line matches no TOTAL expression, a later line does,
\* and the amount is the first line's.
C5_Witness ==
    /\ Returned
    /\ Len(InputLines) >= 2
    /\ Matches(1, InputLines[1]) = {}
    /\ Matches(4, InputLines[1]) # {}
    /\ Matches(1, InputLines[2]) # {}
    /\ parsed.debug.matched = InputLines[1]
    /\ parsed.amount = AmountOf(LastGroup(4, InputLines[1]))
    /\ parsed.amount # AmountOf(LastGroup(1, InputLines[2]))

\* C6: when the text is empty, or no line among the first six is a merchant
\* candidate and no line matches an amount expression, the record is
\* merchant "-", currency SGD, amount 0.
C6_Defaults ==
    ( /\ Returned
      /\ \/ text = <<>>
         \/ /\ \A i \in 1..Min(6, Len(InputLines)) : ~MerchantCandidate(InputLines[i])
            /\ MatchingLines(InputLines) = {} ) =>
        /\ parsed.merchant = <<"-">>
        /\ parsed.currency = "SGD"
        /\ parsed.amount = 0

\* A text of several lines, none a merchant candidate and none with an
\* amount, was parsed.
C6_Witness ==
    /\ Returned
    /\ Len(InputLines) >= 2
    /\ \A i \in 1..Min(6, Len(InputLines)) : ~MerchantCandidate(InputLines[i])
    /\ MatchingLines(InputLines) = {}
    /\ parsed.merchant = <<"-">>

\* C9: the currency is decided by the matched line alone: CNY if it contains
\* CNY, otherwise SGD (for SGD or S$, for $, and by default); CNY and SGD are
\* looked for in any letter case, as the amount keywords are.  So a line with
\* both CNY and SGD gives CNY, and a line marked USD, HKD or RM gives SGD.
C9_CurrencyFromMatchedLine ==
    Returned =>
        LET line == parsed.debug.matched
        IN  /\ parsed.currency \in {"CNY", "SGD"}
            /\ TestCI(line, <<"C","N","Y">>) => parsed.currency = "CNY"
            /\ ~TestCI(line, <<"C","N","Y">>) => parsed.currency = "SGD"
            /\ ( /\ ~TestCI(line, <<"C","N","Y">>)
                 /\ \/ TestCI(line, <<"U","S","D">>)
                    \/ TestCI(line, <<"H","K","D">>)
                    \/ TestCI(line, <<"R","M">>) ) => parsed.currency = "SGD"

\* The matched line contains SGD before CNY, and the currency is CNY.
C9_Witness ==
    /\ Returned
    /\ LitAt(parsed.debug.matched, 1, <<"S","G","D">>)
    /\ Test(parsed.debug.matched, <<"C","N","Y">>)
    /\ parsed.currency = "CNY"

\* C10: the merchant is the sanitised form of the first line, among the
\* first min(6, line count) lines, that matches no deny-list term, has a
\* letter and has at least 3 characters; when none of them qualifies the
\* merchant is "-", whatever the lines from the seventh on.
C10_FirstCandidateOfSix ==
    Returned =>
        LET ls == InputLines
            Q  == {i \in 1..Min(6, Len(ls)) :
                      /\ \A k \in 1..Len(BanTerms) : ~TestCI(ls[i], BanTerms[k])
                      /\ \E c \in 1..Len(ls[i]) : IsAlpha(ls[i][c])
                      /\ Len(ls[i]) >= 3}
        IN  IF Q = {}
              THEN parsed.merchant = <<"-">>
              ELSE parsed.merchant =
                     SubSeq(SelectSeq(ls[Least(Q)], Kept), 1,
                            Min(60, Len(SelectSeq(ls[Least(Q)], Kept))))

\* None of the first six lines qualifies, the seventh does, and the merchant
\* is "-".
C10_Witness ==
    /\ Returned
    /\ Len(InputLines) >= 7
    /\ \A i \in 1..6 : ~MerchantCandidate(InputLines[i])
    /\ MerchantCandidate(InputLines[7])
    /\ parsed.merchant = <<"-">>

Done == pc = "done"

C8_ResponseFields ==
    \A i \in 1..Len(responses) :
        LET b == responses[i].body
        IN  IF b.ok
              THEN DOMAIN b = {"ok", "merchant", "amount", "currency"}
              ELSE /\ DOMAIN b = {"ok", "code", "message"}
                   /\ b.code \in {"NOFILE", "QUOTA", "ERROR"}
                   /\ b.code = "NOFILE" => b.message = NoFileMessage
                   /\ b.code = "QUOTA" => b.message = QuotaMessage
                   /\ b.code = "ERROR" => b.message = ErrorMessage
                   /\ b.message # err.detail

\* A success response was sent for a text in which a line matched.
C8_Witness ==
    /\ Done
    /\ ocr = "returned"
    /\ parsed.debug.matched # <<>>
    /\ responses[1].body.ok

=============================================================================
